---- MODULE Spec2Model ----
(***************************************************************************)
(* A model of the Slack <-> Flowise relay bot (src/app.js and              *)
(* src/unnamed/part_000).                                                  *)
(*                                                                         *)
(* The sources hold three revisions of the same script:                    *)
(*   - src/app.js 1-555:   app.message handler with lazy bot identity,     *)
(*                         thread-participation lookup and file uploads,   *)
(*                         plus the file_shared handler;                   *)
(*   - src/app.js 556-787: app.event('message') handler with               *)
(*                         shouldProcessMessage and a session id;          *)
(*   - src/unnamed/part_000: app_mention handler and DM-only message       *)
(*                         handler.                                        *)
(* Every handler invocation is one slot of `inv`; an await in the code is  *)
(* a yield point, so each action runs the code between two awaits.         *)
(* Strings are sequences of one-character strings.                         *)
(***************************************************************************)
EXTENDS Integers, Sequences, FiniteSets, TLC

VARIABLES
    revision,         \* which of the three scripts is running
    botUserId,        \* app.js:36   let botUserId = ''
    isShuttingDown,   \* app.js:37   let isShuttingDown = false
    initPc,           \* position of initializeBotId (app.js:40-53)
    clientBotUserId,  \* app.client.botUserId as rendered in a template literal
    config,           \* FLOWISE_API_ENDPOINT / FLOWISE_API_KEY of the environment
    inv,              \* the handler invocations in flight, one per slot
    sigtermPc,        \* position of the SIGTERM handler (app.js:88-103, 600-607)
    stopCalls,        \* how many times app.stop() was called
    applied,          \* the helper function applied to the input below
    input,            \* a text handed to a helper function
    payload,          \* a prediction response handed to extractCleanResponse
    output,           \* what the helper function returned
    output2           \* what convertMarkdownToSlack returned for its own output

\* The helper-function variables, untouched by the handlers.
helper == <<applied, input, payload, output, output2>>

\* The shutdown variables.
shutdown == <<sigtermPc, stopCalls>>

vars == <<revision, botUserId, isShuttingDown, initPc, clientBotUserId, config, inv,
          shutdown, helper>>

---------------------------------------------------------------------------
(* Bounds *)

MaxInflight == 2    \* handler invocations that may overlap
MaxTs       == 2    \* distinct message timestamps
MaxFiles    == 2    \* files attached to one message
MaxSignals  == 2    \* SIGTERM signals acted upon by a handler without a flag

Slots      == 1..MaxInflight
Timestamps == 1..MaxTs

\* The three scripts of the sources.
App1  == "app.js:1-555"
App2  == "app.js:556-787"
Part0 == "part_000"

---------------------------------------------------------------------------
(* Strings *)

\* String.prototype.includes: pat occurs in s as a contiguous substring.
Includes(s, pat) ==
    \E k \in 0..(Len(s) - Len(pat)) : SubSeq(s, k + 1, k + Len(pat)) = pat

\* The user id auth.test answers with.
BotId == <<"U">>

\* `${undefined}` in a template literal.
UndefinedStr == <<"u","n","d","e","f","i","n","e","d">>

\* `<@${id}>`
MentionToken(id) == <<"<","@">> \o id \o <<">">>

TextHi           == <<"h","i">>
TextMention      == <<"h","i"," ">> \o MentionToken(BotId)
TextEmptyMention == MentionToken(<<>>)
TextUndefMention == MentionToken(UndefinedStr)

Texts == {TextHi, TextMention, TextEmptyMention, TextUndefMention}

---------------------------------------------------------------------------
(* Events *)

ChannelTypes == {"im", "channel", "group"}
Channels     == {"C1", "C2"}
Subtypes     == {"none", "bot_message"}

\* event.text: undefined (has_text = FALSE) or one of Texts.
TextValues ==
    {[has |-> FALSE, s |-> <<>>]} \cup {[has |-> TRUE, s |-> t] : t \in Texts}

\* An absent ts / thread_ts (undefined) is 0; a present one is in Timestamps.
Event(ct, tv, ch, t, tt, b, st, nf) ==
    [channel_type |-> ct, has_text |-> tv.has, text |-> tv.s, channel |-> ch,
     ts |-> t, thread_ts |-> tt, bot_id |-> b, subtype |-> st, files |-> nf]

\* A thread's parent is older than the newest message: thread_ts, when
\* present, is below MaxTs.
ThreadTimestamps == 0..(MaxTs - 1)

\* The `message` events delivered to the app.message handler of app.js:427,
\* which reads channel_type, text, ts, thread_ts, bot_id, subtype and files.
MessageEvents ==
    {Event(ct, tv, "C1", t, tt, b, st, nf) :
        ct \in ChannelTypes, tv \in TextValues, t \in Timestamps,
        tt \in ThreadTimestamps, b \in BOOLEAN, st \in Subtypes,
        nf \in 0..MaxFiles}

\* The `message` events delivered to the handlers of app.js:668 and
\* part_000:300 and to shouldProcessMessage, which read channel_type, text,
\* channel, ts, thread_ts and bot_id.
PlainMessageEvents ==
    {Event(ct, tv, ch, t, tt, b, "none", 0) :
        ct \in ChannelTypes, tv \in TextValues, ch \in Channels,
        t \in Timestamps, tt \in ThreadTimestamps, b \in BOOLEAN}

\* `app_mention` events: sent by users in channels; the handler reads text,
\* channel, ts and thread_ts only.
AppMentionEvents ==
    {Event("channel", tv, ch, t, tt, FALSE, "none", 0) :
        tv \in TextValues, ch \in Channels, t \in Timestamps,
        tt \in ThreadTimestamps}

\* `file_shared` events: the handler reads file_id, channel, ts and thread_ts;
\* the platform may leave ts and thread_ts out.
FileSharedEvents ==
    {Event("none", [has |-> FALSE, s |-> <<>>], ch, t, tt, FALSE, "none", 1) :
        ch \in Channels, t \in 0..MaxTs, tt \in ThreadTimestamps}

NoEvent == Event("none", [has |-> FALSE, s |-> <<>>], "none", 0, 0, FALSE, "none", 0)

\* message.text || ''   (app.js:445)
TextOrEmpty(ev) == IF ev.has_text THEN ev.text ELSE <<>>

\* A faulty anchor: read from one shared "current message" (the event of the
\* first invocation) instead of the handler's own event.
ReplyAnchorShared(ev) ==
    IF inv[1].ev.thread_ts # 0 THEN inv[1].ev.thread_ts ELSE inv[1].ev.ts

\* event.thread_ts || event.ts   (app.js:481, 490, 532, 539, 739, 763;
\* part_000:282, 294, 339, 351)
ReplyAnchor(ev) == IF ev.thread_ts # 0 THEN ev.thread_ts ELSE ev.ts

---------------------------------------------------------------------------
(* Handler invocations *)

NoKey == <<>>

IdleSlot ==
    [kind |-> "idle", ev |-> NoEvent, pc |-> "idle", decision |-> "unset",
     identity |-> <<>>, calls |-> <<>>, sessionKey |-> NoKey, posts |-> <<>>,
     failure |-> "none"]

FinalPcs == {"skipped", "replied", "apologized", "uncaught"}

\* say(...) / client.chat.postMessage(...) is issued: the post is pending until
\* the platform answers.
Post(s, kind, nextPc) ==
    [s EXCEPT !.pc = nextPc,
              !.posts = Append(@, [kind |-> kind, thread_ts |-> ReplyAnchor(s.ev),
                                   status |-> "pending"])]

\* The pending post is answered.
Settle(s, status, nextPc) ==
    [s EXCEPT !.pc = nextPc, !.posts[Len(s.posts)].status = status]

\* The handler's catch block: the apology is posted into the event's thread
\* (app.js:486-492, 535-542, 747-765; part_000:285-296, 342-353).
Catch(s) == Post(s, "apology", "apology_wait")

\* The step named threw or rejected: control goes to the catch block.
Fail(s, step) == Catch([s EXCEPT !.failure = step])

\* The request to the prediction endpoint is issued.
Predict(s, key) ==
    [s EXCEPT !.pc = "predict_wait", !.calls = Append(@, <<"predict", 0>>),
              !.sessionKey = key]

---------------------------------------------------------------------------
(* Eligibility *)

IsDM(ev)      == ev.channel_type = "im"
IsChannel(ev) == ev.channel_type = "channel" \/ ev.channel_type = "group"

\* event.text?.includes(`<@${id}>`)
HasBotMention(ev, id) == ev.has_text /\ Includes(ev.text, MentionToken(id))

\* shouldProcessMessage of app.js:279-319, reading the global botUserId (id).
shouldProcessMessage(ev, id) ==
    IF ev.bot_id THEN FALSE
    ELSE IF IsDM(ev) THEN TRUE
    ELSE IF IsChannel(ev)
         THEN IF HasBotMention(ev, id) THEN TRUE
              ELSE IF ev.thread_ts # 0 /\ ev.has_text /\ ev.text # <<>>
                   THEN HasBotMention(ev, id)
                   ELSE FALSE
         ELSE FALSE

\* shouldProcessMessage of app.js:646-665, reading app.client.botUserId (id).
shouldProcessMessage2(ev, id) ==
    IF ev.bot_id THEN FALSE
    ELSE IF IsDM(ev) THEN TRUE
    ELSE IF IsChannel(ev) /\ (HasBotMention(ev, id) \/ ev.thread_ts # 0) THEN TRUE
    ELSE FALSE

\* app.js:440   message.bot_id || message.subtype === 'bot_message'
IsBotMessage(ev) == ev.bot_id \/ ev.subtype = "bot_message"

\* app.js:446   messageText.includes(`<@${botUserId}>`)
hasMention(ev, id) == Includes(TextOrEmpty(ev), MentionToken(id))

\* Faulty decisions: direct messages forgotten; every channel message taken.
RespondsDirectlyNoDM(ev, id) == IsChannel(ev) /\ hasMention(ev, id)
RespondsDirectlyAnyChannel(ev, id) == IsDM(ev) \/ IsChannel(ev)

\* app.js:464-465: the part of shouldRespond that needs no lookup.
RespondsDirectly(ev, id) == IsDM(ev) \/ (IsChannel(ev) /\ hasMention(ev, id))

\* app.js:466: inThread && message.thread_ts, the guard of the thread lookup.
inThread(ev) == ev.thread_ts # 0

\* Thread histories conversations.replies may answer with. bot_name says
\* msg.username === process.env.SLACK_BOT_USERNAME.
UserMsg     == [user |-> <<"W">>, bot_id |-> FALSE, bot_name |-> FALSE]
BotMsg      == [user |-> BotId, bot_id |-> TRUE, bot_name |-> FALSE]
NamedBotMsg == [user |-> <<"B">>, bot_id |-> TRUE, bot_name |-> TRUE]
OtherBotMsg == [user |-> <<"B">>, bot_id |-> TRUE, bot_name |-> FALSE]
Histories ==
    {<<UserMsg>>, <<UserMsg, BotMsg>>, <<NamedBotMsg, UserMsg>>, <<OtherBotMsg>>}

\* isThreadParticipant of app.js:496-511, on an answered lookup.
isThreadParticipant(history, id) ==
    \E k \in 1..Len(history) :
        history[k].user = id \/ (history[k].bot_id /\ history[k].bot_name)

\* sessionId of app.js:697-702 (the `_`-joined pieces of the template).
SessionId(ev) ==
    IF ev.channel_type = "im"
    THEN <<"slack_dm_", ev.channel, "_", ReplyAnchor(ev)>>
    ELSE <<"slack_", ev.channel, "_", ReplyAnchor(ev)>>

\* sessionId of part_000:250 (app_mention) and part_000:308 (direct message).
MentionSessionId(ev) == <<"slack_", ev.channel, "_", ReplyAnchor(ev)>>
DmSessionId(ev)      == <<"slack_dm_", ev.channel, "_", ReplyAnchor(ev)>>

---------------------------------------------------------------------------
(* handleMessage, app.js:346-424 *)

\* validateFlowiseConfig of app.js:329-343 throws.
ConfigInvalid == config \in {"no_key", "bad_url"}

\* process.env.FLOWISE_API_ENDPOINT.replace(...) at load (app.js:105, 619;
\* part_000:18) throws when the variable is not set: the script ends before
\* any handler is registered.
Loaded == config # "no_endpoint"

\* process.exit has not been called: nothing runs after it.
Running == sigtermPc \notin {"exit0", "exit1"}

\* The first file of the message: files[0] (app.js:352).
FirstFile == 1

\* handleMessage up to its first await. A throw is rethrown (app.js:422) to
\* the caller's catch.
handleMessage(s, hasClient) ==
    IF ConfigInvalid THEN Fail(s, "validateFlowiseConfig")
    ELSE IF s.ev.files > 0 /\ hasClient
         THEN [s EXCEPT !.pc = "fileinfo_wait",
                        !.calls = Append(@, <<"files.info", FirstFile>>)]
         ELSE Predict(s, NoKey)

\* The handler returns without answering. decision is the eligibility
\* decision taken ("unset": none was), identity the bot identity it read.
Skip(s, d) == [s EXCEPT !.pc = "skipped", !.decision = d]

Decided(s, d, id) == [s EXCEPT !.decision = d, !.identity = id]

\* app.message handler, app.js:435-476: from the bot check to the first await.
MessageAfterIdentity(s, id) ==
    IF IsBotMessage(s.ev) THEN Skip(s, "unset")
    ELSE IF RespondsDirectly(s.ev, id)
         THEN handleMessage(Decided(s, "yes", id), TRUE)
         ELSE IF inThread(s.ev)
              THEN [s EXCEPT !.pc = "thread_wait", !.identity = id,
                             !.calls = Append(@, <<"conversations.replies", 0>>)]
              ELSE Skip(Decided(s, "no", id), "no")

---------------------------------------------------------------------------
(* Text helpers *)

NL         == "\n"
Whitespace == {" ", NL}

Min(S) == CHOOSE x \in S : \A y \in S : x <= y

From(s, k) == SubSeq(s, k, Len(s))

\* String.prototype.indexOf(pat, from), counted from 1; 0 when pat is absent.
IndexOf(s, pat, from) ==
    LET ks == {k \in from..(Len(s) - Len(pat) + 1) :
                  SubSeq(s, k, k + Len(pat) - 1) = pat}
    IN  IF ks = {} THEN 0 ELSE Min(ks)

\* String.prototype.split(sep) for a non-empty separator string.
RECURSIVE Split(_, _)
Split(s, sep) ==
    LET k == IndexOf(s, sep, 1)
    IN  IF k = 0 THEN <<s>>
        ELSE <<SubSeq(s, 1, k - 1)>> \o Split(From(s, k + Len(sep)), sep)

\* Array.prototype.join(sep)
RECURSIVE Join(_, _)
Join(parts, sep) ==
    IF parts = <<>> THEN <<>>
    ELSE IF Len(parts) = 1 THEN parts[1]
    ELSE parts[1] \o sep \o Join(Tail(parts), sep)

\* String.prototype.trim()
RECURSIVE TrimStart(_)
TrimStart(s) ==
    IF s # <<>> /\ s[1] \in Whitespace THEN TrimStart(Tail(s)) ELSE s

RECURSIVE TrimEnd(_)
TrimEnd(s) ==
    IF s # <<>> /\ s[Len(s)] \in Whitespace
    THEN TrimEnd(SubSeq(s, 1, Len(s) - 1)) ELSE s

Trim(s) == TrimEnd(TrimStart(s))

\* The characters of the texts below. The passes of convertMarkdownToSlack
\* that are not listed with an operator of their own need a character that
\* is not among them: "#" (headers), "." after digits (numbered lists), ">"
\* (block quotes), "[" (links), ":" (emoji codes); "-" stands only in the
\* separator row of a table, which the table pass consumes.
\* The bullet and the backtick are written by their code points.
Bullet   == "U+2022"
Backtick == "U+0060"
Alphabet == {"a", "b", "A", "B", "1", "2", " ", NL, "*", "_", "|", "-", Backtick, Bullet}

---------------------------------------------------------------------------
(* convertTable and convertMarkdownToSlack, app.js:155-231, part_000:69-151 *)

Fence == <<Backtick, Backtick, Backtick>>

\* row.split('|').filter(cell => cell.trim() !== '').map(cell => cell.trim())
Cells(row) ==
    LET kept == SelectSeq(Split(row, <<"|">>), LAMBDA c : Trim(c) # <<>>)
    IN  [k \in 1..Len(kept) |-> Trim(kept[k])]

\* The text one row adds to slackTable; index counts from 0 as in the code.
TableRow(row, index) ==
    IF index = 1 /\ Includes(row, <<"|", "-">>) THEN <<>>
    ELSE IF index = 0
         THEN Join([k \in 1..Len(Cells(row)) |-> <<"*">> \o Cells(row)[k] \o <<"*">>],
                   <<" ", "|", " ">>) \o <<NL>>
         ELSE Join(Cells(row), <<" ", "|", " ">>) \o <<NL>>

RECURSIVE TableRows(_, _)
TableRows(rows, index) ==
    IF index >= Len(rows) THEN <<>>
    ELSE TableRow(rows[index + 1], index) \o TableRows(rows, index + 1)

convertTable(tableText) ==
    Fence \o TableRows(Split(Trim(tableText), <<NL>>), 0) \o Fence

\* \|[^\n]+\|   and   \|[-:\|\s]+\|   on one line (the line's \n taken off).
IsRowLine(line) ==
    Len(line) >= 3 /\ line[1] = "|" /\ line[Len(line)] = "|"

IsSeparatorLine(line) ==
    /\ IsRowLine(line)
    /\ \A k \in 2..(Len(line) - 1) : line[k] \in {"-", ":", "|"} \cup Whitespace

\* The table expression of app.js:185 matches the whole text: a row line, a
\* separator line and one or more row lines, each ended by \n.
IsTable(text) ==
    LET lines == Split(text, <<NL>>)
    IN  /\ Len(lines) >= 4
        /\ lines[Len(lines)] = <<>>
        /\ IsRowLine(lines[1])
        /\ IsSeparatorLine(lines[2])
        /\ \A k \in 3..(Len(lines) - 1) : IsRowLine(lines[k])

\* The table pass. A text in which no line ends with "|" has no match.
TablePass(text) == IF IsTable(text) THEN convertTable(text) ELSE text

\* /\*\*(.+?)\*\*/g  ->  '*$1*'   (app.js:206). The lazy group ends at the first
\* "**" that leaves it non-empty; "." does not match \n.
RECURSIVE BoldPass(_)
BoldPass(s) ==
    IF s = <<>> THEN <<>>
    ELSE LET closes == {k \in 4..(Len(s) - 1) :
                           /\ s[k] = "*" /\ s[k + 1] = "*"
                           /\ \A j \in 3..(k - 1) : s[j] # NL}
         IN  IF Len(s) >= 5 /\ s[1] = "*" /\ s[2] = "*" /\ closes # {}
             THEN <<"*">> \o SubSeq(s, 3, Min(closes) - 1) \o <<"*">>
                      \o BoldPass(From(s, Min(closes) + 2))
             ELSE <<s[1]>> \o BoldPass(Tail(s))

\* /_(.+?)_/g  ->  '_$1_'   (app.js:207)
RECURSIVE ItalicUnderscorePass(_)
ItalicUnderscorePass(s) ==
    IF s = <<>> THEN <<>>
    ELSE LET closes == {k \in 3..Len(s) :
                           s[k] = "_" /\ \A j \in 2..(k - 1) : s[j] # NL}
         IN  IF s[1] = "_" /\ closes # {}
             THEN <<"_">> \o SubSeq(s, 2, Min(closes) - 1) \o <<"_">>
                      \o ItalicUnderscorePass(From(s, Min(closes) + 1))
             ELSE <<s[1]>> \o ItalicUnderscorePass(Tail(s))

\* A faulty pass: the asterisks are kept inside the underscores.
RECURSIVE ItalicStarNested(_)
ItalicStarNested(s) ==
    IF s = <<>> THEN <<>>
    ELSE LET close == IndexOf(s, <<"*">>, 2)
         IN  IF s[1] = "*" /\ close > 2
             THEN <<"_", "*">> \o SubSeq(s, 2, close - 1) \o <<"*", "_">>
                      \o ItalicStarNested(From(s, close + 1))
             ELSE <<s[1]>> \o ItalicStarNested(Tail(s))

\* /\*([^*]+)\*/g  ->  '_$1_'   (app.js:208). The group runs to the next "*",
\* across line ends.
RECURSIVE ItalicStarPass(_)
ItalicStarPass(s) ==
    IF s = <<>> THEN <<>>
    ELSE LET close == IndexOf(s, <<"*">>, 2)
         IN  IF s[1] = "*" /\ close > 2
             THEN <<"_">> \o SubSeq(s, 2, close - 1) \o <<"_">>
                      \o ItalicStarPass(From(s, close + 1))
             ELSE <<s[1]>> \o ItalicStarPass(Tail(s))

\* The passes in the order of the code. The code-block pass (app.js:190) and
\* the inline-code pass (app.js:196) put back what they matched: no word of
\* Alphabet's letters is a key of languageMap.
convertMarkdownToSlack(text) ==
    ItalicStarPass(ItalicUnderscorePass(BoldPass(TablePass(text))))

---------------------------------------------------------------------------
(* createSlackBlocks, app.js:234-260, part_000:154-199 *)

Block(section) ==
    [type |-> "section", text |-> [type |-> "mrkdwn", text |-> section]]

\* A faulty segmenter: the whole text in one block.
createSlackBlocksWhole(text) == <<Block(text)>>

\* text.split('\n\n'), one section block for each piece whatever it starts with.
createSlackBlocks(text) ==
    LET sections == Split(text, <<NL, NL>>)
    IN  [k \in 1..Len(sections) |-> Block(sections[k])]

---------------------------------------------------------------------------
(* extractCleanResponse, app.js:263-276 and 626-643, part_000:202-238 *)

\* The two fixed strings, each as one token.
ApologyUnprocessed == <<"Sorry, I couldn't process the response properly.">>
ApologyTrouble     == <<"Sorry, I had trouble processing the response.">>

MaxMessages == 2    \* entries of assistant.messages

\* A prediction response. shape: what the value is ("json_string" is a string
\* JSON.parse turns into the object the other fields describe, "bad_string"
\* one it throws on). text: the top-level text field. messages:
\* assistant.messages.
PayloadTexts == {<<"a">>, <<"*", "*", "a", "*", "*">>}

TextFields ==
    {[kind |-> "absent", s |-> <<>>], [kind |-> "number", s |-> <<>>],
     [kind |-> "string", s |-> <<>>]}
        \cup {[kind |-> "string", s |-> t] : t \in PayloadTexts}

\* content: what content[0].text.value of the entry is.
MessageEntries ==
    {[role |-> r, content |-> "absent", value |-> <<>>] : r \in {"user", "assistant"}}
        \cup {[role |-> r, content |-> "value", value |-> t] :
                 r \in {"user", "assistant"}, t \in PayloadTexts}

MessageLists ==
    UNION {[1..n -> MessageEntries] : n \in 0..MaxMessages}

MessagesFields ==
    {[kind |-> k, list |-> <<>>] : k \in {"no_assistant", "no_messages", "not_array"}}
        \cup {[kind |-> "array", list |-> l] : l \in MessageLists}

Payload(shape, t, m) == [shape |-> shape, text |-> t, messages |-> m]

NoPayload ==
    Payload("none", [kind |-> "absent", s |-> <<>>],
            [kind |-> "no_assistant", list |-> <<>>])

Payloads ==
    {[NoPayload EXCEPT !.shape = sh] :
        sh \in {"undefined", "null", "number", "bad_string"}}
        \cup {Payload(sh, t, m) :
                 sh \in {"object", "json_string"}, t \in TextFields,
                 m \in MessagesFields}

Returned(s) == [raised |-> FALSE, text |-> s]

\* `x && x.text` as a condition: a non-empty string or a non-zero number.
TextTruthy(p) ==
    \/ p.text.kind = "number"
    \/ p.text.kind = "string" /\ p.text.s # <<>>

\* convertMarkdownToSlack(x.text) inside the try: text.replace is not a
\* function on a number, and the catch returns the second string.
ConvertedText(p) ==
    IF p.text.kind = "string" THEN Returned(convertMarkdownToSlack(p.text.s))
    ELSE Returned(ApologyTrouble)

\* app.js:263-276 (and 626-643): only the text field is looked at.
extractCleanResponse(p) ==
    IF p.shape = "object" /\ TextTruthy(p) THEN ConvertedText(p)
    ELSE Returned(ApologyUnprocessed)

\* responseData.assistant.messages.find(msg => msg.role === 'assistant')
FirstAssistant(list) ==
    LET ks == {k \in 1..Len(list) : list[k].role = "assistant"}
    IN  IF ks = {} THEN 0 ELSE Min(ks)

\* part_000:202-238. typeof null is 'object', so null.text throws; every
\* other non-object goes through JSON.parse.
extractCleanResponsePart0(p) ==
    IF p.shape \in {"null", "undefined", "bad_string"} THEN Returned(ApologyTrouble)
    ELSE IF p.shape = "number" THEN Returned(ApologyUnprocessed)
    ELSE IF TextTruthy(p) THEN ConvertedText(p)
    ELSE IF p.messages.kind = "not_array" THEN Returned(ApologyTrouble)
    ELSE IF p.messages.kind = "array"
              /\ FirstAssistant(p.messages.list) # 0
              /\ p.messages.list[FirstAssistant(p.messages.list)].content = "value"
              /\ p.messages.list[FirstAssistant(p.messages.list)].value # <<>>
         THEN Returned(convertMarkdownToSlack(
                  p.messages.list[FirstAssistant(p.messages.list)].value))
         ELSE Returned(ApologyUnprocessed)

---------------------------------------------------------------------------
(* Texts handed to the helper functions *)

MaxRawLen     == 4    \* length of a text over the markers and one letter
MaxTokens     == 3    \* converted markers in one text
MaxParagraphs == 3    \* paragraphs in one text
MaxBodyRows   == 2    \* body rows of a table

SeqsUpTo(S, n) == UNION {[1..m -> S] : m \in 0..n}

\* Every text of the letter a and the two emphasis markers.
RawTexts == SeqsUpTo({"a", "*", "_"}, MaxRawLen)

\* Words without markers.
Words == {<<"a">>, <<"a", "b">>, <<"a", " ", "b">>}

DoubleStar(w) == <<"*", "*">> \o w \o <<"*", "*">>
Star(w)       == <<"*">> \o w \o <<"*">>
Underscore(w) == <<"_">> \o w \o <<"_">>
Bulleted(w)   == <<Bullet, " ">> \o w

EmphasisTexts == {DoubleStar(w) : w \in Words} \cup {Star(w) : w \in Words}
                     \cup {Underscore(w) : w \in Words}

\* Already-converted markup: markers of the three converted forms, one after
\* the other, apart by nothing, a space or a line end.
ConvertedTokens == {Star(<<"a">>), Underscore(<<"a">>), Bulleted(<<"a">>),
                    Star(<<"a", "b">>), Underscore(<<"b">>)}
Separators      == {<<>>, <<" ">>, <<NL>>}

RECURSIVE JoinEach(_, _)
JoinEach(parts, seps) ==
    IF Len(parts) = 1 THEN parts[1]
    ELSE parts[1] \o seps[1] \o JoinEach(Tail(parts), Tail(seps))

ConvertedTexts ==
    {JoinEach(ts, ss) :
        <<ts, ss>> \in UNION {[1..n -> ConvertedTokens] \X [1..(n - 1) -> Separators] :
                                 n \in 1..MaxTokens}}

\* Paragraphs: non-empty, no blank line inside, no line end at either side.
Paragraphs == {<<"a">>, <<"b">>, <<"a", NL, "b">>, Fence \o <<"a">> \o Fence}

ParagraphLists == UNION {[1..n -> Paragraphs] : n \in 1..MaxParagraphs}

BlankLine == <<NL, NL>>

ParagraphTexts == {Join(ps, BlankLine) : ps \in ParagraphLists}

\* Tables: header cells A (and B), body cells 1 or 2, the separator row
\* written tight (|---|) or spaced (| --- |).
TableColumns == {1, 2}
HeaderCells  == <<<<"A">>, <<"B">>>>
BodyCells    == {<<"1">>, <<"2">>}

RenderRow(cells) ==
    <<"|", " ">> \o Join(cells, <<" ", "|", " ">>) \o <<" ", "|", NL>>

RECURSIVE RenderRows(_)
RenderRows(rows) ==
    IF rows = <<>> THEN <<>> ELSE RenderRow(rows[1]) \o RenderRows(Tail(rows))

SeparatorRow(cols, spaced) ==
    IF spaced
    THEN RenderRow([k \in 1..cols |-> <<"-", "-", "-">>])
    ELSE <<"|">> \o Join([k \in 1..cols |-> <<"-", "-", "-">>], <<"|">>) \o <<"|", NL>>

TablesOf(c) ==
    {[cols |-> c, spaced |-> sp, body |-> b] :
        sp \in BOOLEAN,
        b \in UNION {[1..n -> [1..c -> BodyCells]] : n \in 1..MaxBodyRows}}

Tables == UNION {TablesOf(c) : c \in TableColumns}

Header(t) == SubSeq(HeaderCells, 1, t.cols)

RenderTable(t) ==
    RenderRow(Header(t)) \o SeparatorRow(t.cols, t.spaced) \o RenderRows(t.body)

TableTexts == {RenderTable(t) : t \in Tables}

Inputs == RawTexts \cup EmphasisTexts \cup ConvertedTexts \cup ParagraphTexts
              \cup TableTexts

---------------------------------------------------------------------------
(* Initial state *)

\* botUserId, isShuttingDown, initializeBotId and the validated configuration
\* belong to app.js:1-555 only; app.client.botUserId is read for eligibility by
\* app.js:556-787 only.
Init ==
    /\ revision \in {App1, App2, Part0}
    /\ botUserId = <<>>
    /\ isShuttingDown = FALSE
    /\ config \in IF revision = App1 THEN {"ok", "no_key", "bad_url", "no_endpoint"}
                                      ELSE {"ok", "no_endpoint"}
    /\ initPc = IF ~Loaded THEN "exited"
                ELSE IF revision = App1 THEN "calling" ELSE "absent"
    /\ clientBotUserId \in IF revision = App2 /\ Loaded THEN {UndefinedStr, BotId}
                                                         ELSE {UndefinedStr}
    /\ inv = [i \in Slots |-> IdleSlot]
    /\ sigtermPc = "idle"
    /\ stopCalls = 0
    /\ applied = "none"
    /\ input = <<>>
    /\ payload = NoPayload
    /\ output = <<>>
    /\ output2 = <<>>

New(kind, e) == [IdleSlot EXCEPT !.kind = kind, !.ev = e, !.pc = "running"]

Call(s, op, nextPc) == [s EXCEPT !.pc = nextPc, !.calls = Append(@, <<op, 0>>)]

---------------------------------------------------------------------------
(* initializeBotId, app.js:40-53, and SIGTERM, app.js:88-91 *)

\* app.client.auth.test() answers: botUserId = response.user_id.
InitLookupOk ==
    /\ Running
    /\ initPc = "calling"
    /\ botUserId' = BotId
    /\ initPc' = "resolved"
    /\ UNCHANGED <<revision, isShuttingDown, clientBotUserId, config, inv, shutdown, helper>>

\* A faulty catch block: no retry is scheduled.
InitLookupFailNoRetry ==
    /\ Running
    /\ initPc = "calling"
    /\ initPc' = "stopped"
    /\ UNCHANGED <<revision, botUserId, isShuttingDown, clientBotUserId, config, inv, shutdown, helper>>

\* auth.test() fails: retry in 5 s unless shutting down.
InitLookupFail ==
    /\ Running
    /\ initPc = "calling"
    /\ initPc' = IF ~isShuttingDown THEN "retry_wait" ELSE "stopped"
    /\ UNCHANGED <<revision, botUserId, isShuttingDown, clientBotUserId, config, inv, shutdown, helper>>

\* setTimeout(initializeBotId, 5000) fires.
InitRetry ==
    /\ Running
    /\ initPc = "retry_wait"
    /\ initPc' = "calling"
    /\ UNCHANGED <<revision, botUserId, isShuttingDown, clientBotUserId, config, inv, shutdown, helper>>

\* A faulty handler: the flag is set but never looked at.
SigtermNoGuard ==
    /\ revision = App1
    /\ Loaded
    /\ Running
    /\ stopCalls < MaxSignals
    /\ isShuttingDown' = TRUE
    /\ sigtermPc' = "stopping"
    /\ stopCalls' = stopCalls + 1
    /\ UNCHANGED <<revision, botUserId, initPc, clientBotUserId, config, inv, helper>>

\* process.on('SIGTERM'), app.js:88-93: a signal that finds the flag set
\* returns at once; the first one sets the flag and calls app.stop().
Sigterm ==
    /\ revision = App1
    /\ Loaded
    /\ Running
    /\ IF isShuttingDown
       THEN UNCHANGED <<isShuttingDown, shutdown>>
       ELSE /\ isShuttingDown' = TRUE
            /\ sigtermPc' = "stopping"
            /\ stopCalls' = stopCalls + 1
    /\ UNCHANGED <<revision, botUserId, initPc, clientBotUserId, config, inv, helper>>

\* process.on('SIGTERM') of the second script, app.js:600-607: there is no
\* flag, every signal calls app.stop().
Sigterm2 ==
    /\ revision = App2
    /\ Loaded
    /\ Running
    /\ stopCalls < MaxSignals
    /\ sigtermPc' = "stopping"
    /\ stopCalls' = stopCalls + 1
    /\ UNCHANGED <<revision, botUserId, isShuttingDown, initPc, clientBotUserId,
                   config, inv, helper>>

\* app.stop() resolves: server.close() and process.exit(0)
\* (app.js:94-97, 602-606).
StopOk ==
    /\ sigtermPc = "stopping"
    /\ sigtermPc' = "exit0"
    /\ UNCHANGED <<revision, botUserId, isShuttingDown, initPc, clientBotUserId,
                   config, inv, stopCalls, helper>>

\* app.stop() rejects: process.exit(1) in the catch block of app.js:98-101;
\* in the second script the rejection is unhandled and ends the process.
StopFail ==
    /\ sigtermPc = "stopping"
    /\ sigtermPc' = "exit1"
    /\ UNCHANGED <<revision, botUserId, isShuttingDown, initPc, clientBotUserId,
                   config, inv, stopCalls, helper>>

---------------------------------------------------------------------------
(* app.message handler, app.js:427-493 *)

\* A faulty handler: the lookup is issued for every message.
MessageReceiveAlwaysLookup(i, events) ==
    /\ Running
    /\ revision = App1
    /\ Loaded
    /\ inv[i].kind = "idle"
    /\ \E e \in events :
        inv' = [inv EXCEPT ![i] = Call(New("message", e), "auth.test", "auth_wait")]
    /\ UNCHANGED <<revision, botUserId, isShuttingDown, initPc, clientBotUserId, config, shutdown, helper>>

MessageReceive(i, events) ==
    /\ Running
    /\ revision = App1
    /\ Loaded
    /\ inv[i].kind = "idle"
    /\ \E e \in events :
        inv' = [inv EXCEPT ![i] =
                     IF botUserId = <<>>
                     THEN Call(New("message", e), "auth.test", "auth_wait")
                     ELSE MessageAfterIdentity(New("message", e), botUserId)]
    /\ UNCHANGED <<revision, botUserId, isShuttingDown, initPc, clientBotUserId, config, shutdown, helper>>

\* client.auth.test() answers (app.js:431-432).
MessageAuthOk(i) ==
    /\ Running
    /\ inv[i].pc = "auth_wait"
    /\ botUserId' = BotId
    /\ inv' = [inv EXCEPT ![i] = MessageAfterIdentity(inv[i], BotId)]
    /\ UNCHANGED <<revision, isShuttingDown, initPc, clientBotUserId, config, shutdown, helper>>

MessageAuthFail(i) ==
    /\ Running
    /\ inv[i].pc = "auth_wait"
    /\ inv' = [inv EXCEPT ![i] = Fail(inv[i], "auth.test")]
    /\ UNCHANGED <<revision, botUserId, isShuttingDown, initPc, clientBotUserId, config, shutdown, helper>>

\* conversations.replies answers with history h (app.js:498-506); botUserId
\* was passed as an argument when the lookup was issued (app.js:466).
ThreadLookupOk(i, h) ==
    /\ Running
    /\ inv[i].pc = "thread_wait"
    /\ inv' = [inv EXCEPT ![i] =
                 IF isThreadParticipant(h, inv[i].identity)
                 THEN handleMessage(Decided(inv[i], "yes", inv[i].identity), TRUE)
                 ELSE Skip(inv[i], "no")]
    /\ UNCHANGED <<revision, botUserId, isShuttingDown, initPc, clientBotUserId, config, shutdown, helper>>

\* A faulty lookup: its rejection reaches the handler's catch block.
ThreadLookupFailThrows(i) ==
    /\ Running
    /\ inv[i].pc = "thread_wait"
    /\ inv' = [inv EXCEPT ![i] = Fail(inv[i], "conversations.replies")]
    /\ UNCHANGED <<revision, botUserId, isShuttingDown, initPc, clientBotUserId, config, shutdown, helper>>

\* conversations.replies fails: the catch block inside isThreadParticipant
\* logs the error and returns false (app.js:507-510).
ThreadLookupFail(i) ==
    /\ Running
    /\ inv[i].pc = "thread_wait"
    /\ inv' = [inv EXCEPT ![i] =
                 Skip([inv[i] EXCEPT !.failure = "conversations.replies"], "no")]
    /\ UNCHANGED <<revision, botUserId, isShuttingDown, initPc, clientBotUserId, config, shutdown, helper>>

\* client.files.info answers (app.js:355-374): the download is issued.
FileInfoOk(i) ==
    /\ Running
    /\ inv[i].pc = "fileinfo_wait"
    /\ inv' = [inv EXCEPT ![i] =
                 [inv[i] EXCEPT !.pc = "download_wait",
                                !.calls = Append(@, <<"download", FirstFile>>)]]
    /\ UNCHANGED <<revision, botUserId, isShuttingDown, initPc, clientBotUserId, config, shutdown, helper>>

FileInfoFail(i) ==
    /\ Running
    /\ inv[i].pc = "fileinfo_wait"
    /\ inv' = [inv EXCEPT ![i] = Fail(inv[i], "files.info")]
    /\ UNCHANGED <<revision, botUserId, isShuttingDown, initPc, clientBotUserId, config, shutdown, helper>>

\* The download answers (app.js:377-396): the upload request is issued.
DownloadOk(i) ==
    /\ Running
    /\ inv[i].pc = "download_wait"
    /\ inv' = [inv EXCEPT ![i] = Predict(inv[i], NoKey)]
    /\ UNCHANGED <<revision, botUserId, isShuttingDown, initPc, clientBotUserId, config, shutdown, helper>>

\* A faulty file branch: a failed download is passed over and the prediction
\* endpoint called all the same.
DownloadFailIgnored(i) ==
    /\ Running
    /\ inv[i].pc = "download_wait"
    /\ inv' = [inv EXCEPT ![i] = Predict([inv[i] EXCEPT !.failure = "download"], NoKey)]
    /\ UNCHANGED <<revision, botUserId, isShuttingDown, initPc, clientBotUserId, config, shutdown, helper>>

DownloadFail(i) ==
    /\ Running
    /\ inv[i].pc = "download_wait"
    /\ inv' = [inv EXCEPT ![i] = Fail(inv[i], "download")]
    /\ UNCHANGED <<revision, botUserId, isShuttingDown, initPc, clientBotUserId, config, shutdown, helper>>

---------------------------------------------------------------------------
(* app.event('file_shared') handler, app.js:514-543 *)

FileSharedReceive(i, events) ==
    /\ Running
    /\ revision = App1
    /\ Loaded
    /\ inv[i].kind = "idle"
    /\ \E e \in events :
        inv' = [inv EXCEPT ![i] =
                     [New("file_shared", e) EXCEPT
                         !.pc = "shared_info_wait",
                         !.calls = Append(@, <<"files.info", FirstFile>>)]]
    /\ UNCHANGED <<revision, botUserId, isShuttingDown, initPc, clientBotUserId, config, shutdown, helper>>

\* files.info answers: handleMessage(null, [fileInfo.file]) runs with no client.
FileSharedInfoOk(i) ==
    /\ Running
    /\ inv[i].pc = "shared_info_wait"
    /\ inv' = [inv EXCEPT ![i] = handleMessage(inv[i], FALSE)]
    /\ UNCHANGED <<revision, botUserId, isShuttingDown, initPc, clientBotUserId, config, shutdown, helper>>

FileSharedInfoFail(i) ==
    /\ Running
    /\ inv[i].pc = "shared_info_wait"
    /\ inv' = [inv EXCEPT ![i] = Fail(inv[i], "files.info")]
    /\ UNCHANGED <<revision, botUserId, isShuttingDown, initPc, clientBotUserId, config, shutdown, helper>>

---------------------------------------------------------------------------
(* app.event('message') handler, app.js:668-766 *)

Message2Receive(i, events) ==
    /\ Running
    /\ revision = App2
    /\ Loaded
    /\ inv[i].kind = "idle"
    /\ \E e \in events :
        inv' = [inv EXCEPT ![i] =
                     IF ~shouldProcessMessage2(e, clientBotUserId)
                     THEN Skip(Decided(New("message2", e), "no", clientBotUserId), "no")
                     ELSE Predict(Decided(New("message2", e), "yes", clientBotUserId),
                                  SessionId(e))]
    /\ UNCHANGED <<revision, botUserId, isShuttingDown, initPc, clientBotUserId, config, shutdown, helper>>

---------------------------------------------------------------------------
(* app.event('app_mention') and app.event('message'), part_000:241-355 *)

\* event.text.replace(...) throws on a missing text (part_000:244).
AppMentionReceive(i, events) ==
    /\ Running
    /\ revision = Part0
    /\ Loaded
    /\ inv[i].kind = "idle"
    /\ \E e \in events :
        inv' = [inv EXCEPT ![i] =
                     IF ~e.has_text THEN Fail(New("app_mention", e), "text")
                     ELSE Predict(New("app_mention", e), MentionSessionId(e))]
    /\ UNCHANGED <<revision, botUserId, isShuttingDown, initPc, clientBotUserId, config, shutdown, helper>>

\* part_000:302: only direct messages of non-bots; event.text.trim() throws on
\* a missing text (part_000:315).
DmReceive(i, events) ==
    /\ Running
    /\ revision = Part0
    /\ Loaded
    /\ inv[i].kind = "idle"
    /\ \E e \in events :
        inv' = [inv EXCEPT ![i] =
                     IF ~(e.channel_type = "im" /\ ~e.bot_id)
                     THEN Skip(New("dm", e), "no")
                     ELSE IF ~e.has_text
                          THEN Fail([New("dm", e) EXCEPT !.decision = "yes"], "text")
                          ELSE Predict([New("dm", e) EXCEPT !.decision = "yes"],
                                       DmSessionId(e))]
    /\ UNCHANGED <<revision, botUserId, isShuttingDown, initPc, clientBotUserId, config, shutdown, helper>>

---------------------------------------------------------------------------
(* shouldProcessMessage of app.js:279-319 has no caller in the sources: it  *)
(* is applied here to an event on its own, under the current botUserId.    *)

ShouldProcessEval(i, events) ==
    /\ Running
    /\ revision = App1
    /\ Loaded
    /\ inv[i].kind = "idle"
    /\ \E e \in events :
        inv' = [inv EXCEPT ![i] =
                     [New("shouldProcessMessage", e) EXCEPT
                         !.pc = "evaluated",
                         !.identity = botUserId,
                         !.decision = IF shouldProcessMessage(e, botUserId)
                                      THEN "yes" ELSE "no"]]
    /\ UNCHANGED <<revision, botUserId, isShuttingDown, initPc, clientBotUserId, config, shutdown, helper>>

---------------------------------------------------------------------------
(* The steps every handler shares *)

\* The prediction endpoint answers: the reply is posted
\* (app.js:479-482, 530-534, 733-740; part_000:276-283, 333-340).
PredictOk(i) ==
    /\ Running
    /\ inv[i].pc = "predict_wait"
    /\ inv' = [inv EXCEPT ![i] = Post(inv[i], "reply", "reply_wait")]
    /\ UNCHANGED <<revision, botUserId, isShuttingDown, initPc, clientBotUserId, config, shutdown, helper>>

PredictFail(i) ==
    /\ Running
    /\ inv[i].pc = "predict_wait"
    /\ inv' = [inv EXCEPT ![i] = Fail(inv[i], "predict")]
    /\ UNCHANGED <<revision, botUserId, isShuttingDown, initPc, clientBotUserId, config, shutdown, helper>>

\* app.js:753-759: when the rejection carries a response (the endpoint
\* answered with a status other than 200), the catch block calls
\* log.error(message, null, data), whose `error.message` throws on null: the
\* handler ends with that error and posts nothing.
PredictFailResponse(i) ==
    /\ Running
    /\ revision = App2
    /\ inv[i].pc = "predict_wait"
    /\ inv' = [inv EXCEPT ![i] = [inv[i] EXCEPT !.pc = "uncaught", !.failure = "predict"]]
    /\ UNCHANGED <<revision, botUserId, isShuttingDown, initPc, clientBotUserId, config, shutdown, helper>>

\* A faulty handler: the apology follows a reply that was posted.
ReplyOkThenApology(i) ==
    /\ Running
    /\ inv[i].pc = "reply_wait"
    /\ inv' = [inv EXCEPT ![i] = Catch(Settle(inv[i], "ok", "reply_wait"))]
    /\ UNCHANGED <<revision, botUserId, isShuttingDown, initPc, clientBotUserId, config, shutdown, helper>>

ReplyOk(i) ==
    /\ Running
    /\ inv[i].pc = "reply_wait"
    /\ inv' = [inv EXCEPT ![i] = Settle(inv[i], "ok", "replied")]
    /\ UNCHANGED <<revision, botUserId, isShuttingDown, initPc, clientBotUserId, config, shutdown, helper>>

\* Posting the reply fails: the catch block posts the apology.
ReplyFail(i) ==
    /\ Running
    /\ inv[i].pc = "reply_wait"
    /\ inv' = [inv EXCEPT ![i] = Fail(Settle(inv[i], "failed", "reply_wait"), "say")]
    /\ UNCHANGED <<revision, botUserId, isShuttingDown, initPc, clientBotUserId, config, shutdown, helper>>

ApologyOk(i) ==
    /\ Running
    /\ inv[i].pc = "apology_wait"
    /\ inv' = [inv EXCEPT ![i] = Settle(inv[i], "ok", "apologized")]
    /\ UNCHANGED <<revision, botUserId, isShuttingDown, initPc, clientBotUserId, config, shutdown, helper>>

\* The await in the catch block rejects: the handler's promise rejects.
ApologyFail(i) ==
    /\ Running
    /\ inv[i].pc = "apology_wait"
    /\ inv' = [inv EXCEPT ![i] = Settle(inv[i], "failed", "uncaught")]
    /\ UNCHANGED <<revision, botUserId, isShuttingDown, initPc, clientBotUserId, config, shutdown, helper>>

\* The invocation is over; its slot takes the next event.
Release(i) ==
    /\ Running
    /\ inv[i].pc \in FinalPcs \cup {"evaluated"}
    /\ inv' = [inv EXCEPT ![i] = IdleSlot]
    /\ UNCHANGED <<revision, botUserId, isShuttingDown, initPc, clientBotUserId, config, shutdown, helper>>

---------------------------------------------------------------------------
(* Specifications *)

Step(i) ==
    \/ MessageAuthOk(i) \/ MessageAuthFail(i)
    \/ \E h \in Histories : ThreadLookupOk(i, h)
    \/ ThreadLookupFail(i)
    \/ FileInfoOk(i) \/ FileInfoFail(i)
    \/ DownloadOk(i) \/ DownloadFail(i)
    \/ FileSharedInfoOk(i) \/ FileSharedInfoFail(i)
    \/ PredictOk(i) \/ PredictFail(i) \/ PredictFailResponse(i)
    \/ ReplyOk(i) \/ ReplyFail(i)
    \/ ApologyOk(i) \/ ApologyFail(i)
    \/ Release(i)

Identity == InitLookupOk \/ InitLookupFail \/ InitRetry

Shutdown == Sigterm \/ Sigterm2 \/ StopOk \/ StopFail

\* An event arrives at a free slot of the running script.
Arrive(i) ==
    \/ MessageReceive(i, MessageEvents)
    \/ FileSharedReceive(i, FileSharedEvents)
    \/ ShouldProcessEval(i, PlainMessageEvents)
    \/ Message2Receive(i, PlainMessageEvents)
    \/ DmReceive(i, PlainMessageEvents)
    \/ AppMentionReceive(i, AppMentionEvents)

\* One event is handled at a time, next to the identity loop.
Next == Identity \/ Shutdown \/ Arrive(1) \/ Step(1)

Spec == Init /\ [][Next]_vars

\* Overlapping invocations. Two user events with different anchors: a direct
\* message inside a thread and a channel mention outside one; and one
\* file_shared event.
ConcEvents ==
    {Event("im", [has |-> TRUE, s |-> TextHi], "C1", 2, 1, FALSE, "none", 0),
     Event("channel", [has |-> TRUE, s |-> TextMention], "C1", 2, 0, FALSE,
           "none", 0)}

ConcSharedEvents ==
    {Event("none", [has |-> FALSE, s |-> <<>>], "C1", 1, 0, FALSE, "none", 1)}

ConcArrive(i) ==
    \/ MessageReceive(i, ConcEvents)
    \/ FileSharedReceive(i, ConcSharedEvents)
    \/ Message2Receive(i, ConcEvents)
    \/ DmReceive(i, ConcEvents)
    \/ AppMentionReceive(i, {e \in ConcEvents : e.channel_type = "channel"})

ConcStep(i) ==
    \/ MessageAuthOk(i) \/ MessageAuthFail(i)
    \/ FileSharedInfoOk(i) \/ FileSharedInfoFail(i)
    \/ PredictOk(i) \/ PredictFail(i) \/ PredictFailResponse(i)
    \/ ReplyOk(i) \/ ReplyFail(i)
    \/ ApologyOk(i) \/ ApologyFail(i)
    \/ Release(i)

ConcInit == Init /\ config = "ok"

ConcNext ==
    \/ InitLookupOk \/ InitLookupFail \/ InitRetry
    \/ \E i \in Slots : ConcArrive(i) \/ ConcStep(i)

SpecConc == ConcInit /\ [][ConcNext]_vars

---------------------------------------------------------------------------
(* The helper functions on their own *)

\* Nothing is running but the function under study: a text or a prediction
\* response is chosen and the function applied to it. extractCleanResponse
\* differs between the scripts; the text functions are the same in all of
\* them and are run under the first.
HelperInit ==
    /\ revision \in {App1, App2, Part0}
    /\ botUserId = <<>>
    /\ isShuttingDown = FALSE
    /\ config = "ok"
    /\ initPc = IF revision = App1 THEN "calling" ELSE "absent"
    /\ clientBotUserId = UndefinedStr
    /\ inv = [i \in Slots |-> IdleSlot]
    /\ sigtermPc = "idle"
    /\ stopCalls = 0
    /\ applied = "none"
    /\ output = <<>>
    /\ output2 = <<>>
    /\ \/ input \in Inputs /\ payload = NoPayload /\ revision = App1
       \/ input = <<>> /\ payload \in Payloads

handlerVars ==
    <<revision, botUserId, isShuttingDown, initPc, clientBotUserId, config, inv,
      shutdown>>

Transcode ==
    /\ applied = "none" /\ payload = NoPayload
    /\ applied' = "convertMarkdownToSlack"
    /\ output' = convertMarkdownToSlack(input)
    /\ UNCHANGED <<handlerVars, input, payload, output2>>

\* The function is applied to its own result.
TranscodeAgain ==
    /\ applied = "convertMarkdownToSlack"
    /\ applied' = "convertMarkdownToSlack twice"
    /\ output2' = convertMarkdownToSlack(output)
    /\ UNCHANGED <<handlerVars, input, payload, output>>

Segment ==
    /\ applied = "none" /\ payload = NoPayload
    /\ applied' = "createSlackBlocks"
    /\ output' = createSlackBlocks(input)
    /\ UNCHANGED <<handlerVars, input, payload, output2>>

Extract ==
    /\ applied = "none" /\ payload # NoPayload
    /\ applied' = "extractCleanResponse"
    /\ output' = IF revision = Part0 THEN extractCleanResponsePart0(payload)
                                     ELSE extractCleanResponse(payload)
    /\ UNCHANGED <<handlerVars, input, payload, output2>>

HelperNext == Transcode \/ TranscodeAgain \/ Segment \/ Extract

SpecHelpers == HelperInit /\ [][HelperNext]_vars

---------------------------------------------------------------------------
(* The identity lookup under fairness *)

\* The first script with its identity loop, SIGTERM and the app.message
\* handler up to its own lookup and decision.
LiveInit == Init /\ revision = App1 /\ config = "ok"

LiveNext ==
    \/ InitLookupOk \/ InitLookupFail \/ InitRetry
    \/ Sigterm \/ StopOk \/ StopFail
    \/ MessageReceive(1, ConcEvents)
    \/ MessageAuthOk(1) \/ MessageAuthFail(1)
    \/ PredictOk(1) \/ PredictFail(1)
    \/ ReplyOk(1) \/ ReplyFail(1)
    \/ ApologyOk(1) \/ ApologyFail(1)
    \/ Release(1)

\* The retry timer fires once set (setTimeout, app.js:48); the identity
\* service does not fail for ever: a lookup that is issued again and again
\* is answered in the end.
SpecLive ==
    /\ LiveInit /\ [][LiveNext]_vars
    /\ WF_vars(InitRetry)
    /\ SF_vars(InitLookupOk)

---------------------------------------------------------------------------
(* Properties *)

\* The handlers of `message` events, and those plus shouldProcessMessage.
MessageKinds  == {"message", "message2", "dm"}
DecisionKinds == MessageKinds \cup {"shouldProcessMessage"}

PredictCalls(s) == {k \in 1..Len(s.calls) : s.calls[k][1] = "predict"}
Predicted(s)    == PredictCalls(s) # {}
Called(s, call) == \E k \in 1..Len(s.calls) : s.calls[k] = call

\* The text holds no mention token of any value the bot identity can take.
NoMentionToken(ev) ==
    \A id \in {<<>>, BotId, UndefinedStr} :
        ~Includes(TextOrEmpty(ev), MentionToken(id))

\* C1: a message event whose sender is a bot (bot_id present) is never
\* answered: no prediction call is made and no message is posted for it.
C1_BotEventNeverAnswered ==
    \A i \in Slots :
        (inv[i].kind \in MessageKinds /\ inv[i].ev.bot_id)
            => (~Predicted(inv[i]) /\ inv[i].posts = <<>>)

\* C2: for a message event of channel type im whose sender is not a bot, the
\* eligibility decision is never false and the event is never skipped; every
\* decision taken is true (only the app.message handler may still be waiting
\* for, or have failed, its identity lookup, with no decision taken); and once
\* decided the handler has gone on to the prediction call, unless
\* handleMessage stopped before it (invalid configuration, attached file still
\* being fetched or its fetch failed) or the text is missing.
C2_DirectMessageEligible ==
    \A i \in Slots :
        LET s == inv[i] IN
        (s.kind \in DecisionKinds /\ IsDM(s.ev) /\ ~IsBotMessage(s.ev))
            => /\ s.pc # "skipped"
               /\ s.decision # "no"
               /\ s.kind # "message" => s.decision = "yes"
               /\ (s.kind = "message" /\ s.decision = "unset")
                     => (s.calls = <<<<"auth.test", 0>>>> /\ ~Predicted(s))
               /\ (s.kind \in MessageKinds /\ s.decision = "yes")
                     => \/ Predicted(s)
                        \/ s.kind = "message" /\ ConfigInvalid
                        \/ s.kind = "message" /\ s.ev.files > 0
                              /\ Called(s, <<"files.info", FirstFile>>)
                        \/ s.kind = "dm" /\ ~s.ev.has_text

C2_Witness ==
    \E i \in Slots :
        /\ inv[i].kind = "message" /\ IsDM(inv[i].ev) /\ ~IsBotMessage(inv[i].ev)
        /\ inv[i].ev.text = TextHi /\ inv[i].ev.thread_ts = 0
        /\ inv[i].decision = "yes" /\ Predicted(inv[i])

\* C3: for a message event of channel type channel or group with no thread
\* anchor whose text holds no mention of the bot identity the decision read,
\* the eligibility decision is false: it is never true and no prediction call
\* is made.
C3_ChannelWithoutMentionOrThread ==
    \A i \in Slots :
        LET s == inv[i] IN
        (/\ s.kind \in DecisionKinds /\ IsChannel(s.ev) /\ s.ev.thread_ts = 0
         /\ ~Includes(TextOrEmpty(s.ev), MentionToken(s.identity)))
            => /\ s.decision # "yes"
               /\ ~Predicted(s)
               /\ s.pc \in {"skipped", "evaluated"} => s.decision = "no" \/ IsBotMessage(s.ev)

C3_Witness ==
    \E i \in Slots :
        /\ inv[i].kind = "message" /\ inv[i].ev.channel_type = "group"
        /\ inv[i].ev.thread_ts = 0 /\ inv[i].ev.text = TextHi
        /\ inv[i].identity = BotId
        /\ inv[i].decision = "no" /\ inv[i].pc = "skipped"

\* C4: in a channel or group, a thread reply (thread_ts present) whose text
\* holds no mention is never answered: no prediction call, no reply.
C4_ThreadReplyNeedsMention ==
    \A i \in Slots :
        (/\ inv[i].kind \in MessageKinds /\ IsChannel(inv[i].ev)
         /\ inv[i].ev.thread_ts # 0 /\ NoMentionToken(inv[i].ev))
            => (~Predicted(inv[i]) /\ inv[i].decision # "yes")

\* C5: every message posted for an event, reply or apology, carries thread_ts
\* equal to that event's thread_ts if present, else that event's ts, whatever
\* other invocations are in flight.
C5_PostsAnchoredToOwnEvent ==
    \A i \in Slots :
        \A k \in 1..Len(inv[i].posts) :
            inv[i].posts[k].thread_ts =
                IF inv[i].ev.thread_ts # 0 THEN inv[i].ev.thread_ts
                                           ELSE inv[i].ev.ts

C5_Witness ==
    \E i, j \in Slots :
        /\ i # j
        /\ inv[i].posts # <<>> /\ inv[j].posts # <<>>
        /\ inv[i].posts[1].kind = "reply" /\ inv[j].posts[1].kind = "apology"
        /\ inv[i].ev.thread_ts # 0 /\ inv[j].ev.thread_ts = 0
        /\ inv[i].posts[1].thread_ts # inv[j].posts[1].thread_ts

\* C6: no failure of a handling step, the apology post included, leaves the
\* handler as an uncaught error.
C6_NoFailureEscapes ==
    \A i \in Slots : inv[i].pc # "uncaught"

\* The events every reading of the eligibility rules rejects.
Rejected(ev) ==
    \/ ev.bot_id
    \/ IsChannel(ev) /\ ev.thread_ts = 0 /\ NoMentionToken(ev)

\* C7: an ineligible message event is silently skipped: no prediction call
\* and no post of any kind, also when a lookup fails.
C7_IneligibleSilentlySkipped ==
    \A i \in Slots :
        (inv[i].kind \in MessageKinds /\ Rejected(inv[i].ev))
            => (~Predicted(inv[i]) /\ inv[i].posts = <<>>)

\* C8: while the bot identity is unresolved (empty), no channel or group
\* message is eligible through mention detection, whatever its text.
C8_NoMentionWhileUnresolved ==
    \A i \in Slots :
        (/\ inv[i].kind \in {"message", "shouldProcessMessage"}
         /\ inv[i].decision # "unset" /\ inv[i].identity = <<>>
         /\ IsChannel(inv[i].ev))
            => inv[i].decision = "no"

\* C9: the prediction call of a message event carries a session key, and two
\* events with the same channel type, channel and anchor carry the same key.
C9_SessionKeyDeterministic ==
    \A i \in Slots :
        (inv[i].kind \in MessageKinds /\ Predicted(inv[i]))
            => /\ inv[i].sessionKey # NoKey
               /\ \A j \in Slots :
                     (/\ inv[j].kind \in MessageKinds /\ Predicted(inv[j])
                      /\ inv[j].ev.channel_type = inv[i].ev.channel_type
                      /\ inv[j].ev.channel = inv[i].ev.channel
                      /\ ReplyAnchor(inv[j].ev) = ReplyAnchor(inv[i].ev))
                        => inv[j].sessionKey = inv[i].sessionKey

\* C10: one event makes at most one prediction call; with attached files,
\* every attached file is fetched exactly once, before the upload call, which
\* comes last.
C10_OneCallEveryFileFetched ==
    \A i \in Slots :
        LET s == inv[i] IN
        /\ Cardinality(PredictCalls(s)) <= 1
        /\ (s.kind = "message" /\ Predicted(s) /\ s.ev.files > 0)
              => /\ s.calls[Len(s.calls)][1] = "predict"
                 /\ \A f \in 1..s.ev.files :
                       Cardinality({k \in 1..Len(s.calls) :
                                       s.calls[k] = <<"download", f>>}) = 1

\* The resolution order on a prediction response that is an object.
HasText(p) == p.text.kind = "string" /\ p.text.s # <<>>

HasAssistantValue(p) ==
    /\ p.messages.kind = "array"
    /\ FirstAssistant(p.messages.list) # 0
    /\ p.messages.list[FirstAssistant(p.messages.list)].content = "value"
    /\ p.messages.list[FirstAssistant(p.messages.list)].value # <<>>

AssistantValue(p) == p.messages.list[FirstAssistant(p.messages.list)].value

Apologies == {ApologyUnprocessed, ApologyTrouble}

\* C11: extractCleanResponse raises nothing on any response; on an object, a
\* top-level text gives the transcoded text; with no text field, the first
\* assistant entry of assistant.messages gives the transcoded value of its
\* first content item; with neither, and on a value that is no object, one
\* of the apology strings is returned.
C11_ExtractResolutionOrder ==
    applied = "extractCleanResponse"
        => /\ output.raised = FALSE
           /\ (payload.shape = "object" /\ HasText(payload))
                 => output.text = convertMarkdownToSlack(payload.text.s)
           /\ (payload.shape = "object" /\ payload.text.kind = "absent"
                   /\ HasAssistantValue(payload))
                 => output.text = convertMarkdownToSlack(AssistantValue(payload))
           /\ (payload.shape = "object" /\ ~HasText(payload)
                   /\ ~HasAssistantValue(payload))
                 => output.text \in Apologies
           /\ payload.shape \in {"undefined", "null", "number", "bad_string"}
                 => output.text \in Apologies

\* C12: a missing or malformed endpoint or key never shows as the failure of
\* one message: no invocation fails in validateFlowiseConfig, and with such a
\* configuration no event gets as far as the prediction call.
C12_ConfigFailureFatalAtStartup ==
    \A i \in Slots :
        /\ inv[i].failure # "validateFlowiseConfig"
        /\ config # "ok" => ~Predicted(inv[i])

\* C13: a failed identity lookup schedules another attempt unless shutdown
\* has begun, and a lookup under way or waiting for its retry leads to a
\* resolved identity or to shutdown.
C13_IdentityEventuallyResolved ==
    /\ [][(initPc = "calling" /\ initPc' \notin {"calling", "resolved"}
              /\ ~isShuttingDown) => initPc' = "retry_wait"]_vars
    /\ (initPc \in {"calling", "retry_wait"}) ~> (botUserId # <<>> \/ isShuttingDown)

C13_Witness ==
    initPc = "retry_wait" /\ ~isShuttingDown /\ botUserId = <<>>

\* C14: for a word w without markers, convertMarkdownToSlack turns **w**
\* into *w*, leaves _w_ as it is and turns *w* into _w_.
C14_BoldAndItalic ==
    applied = "convertMarkdownToSlack"
        => \A w \in Words :
              /\ input = DoubleStar(w) => output = Star(w)
              /\ input = Underscore(w) => output = Underscore(w)
              /\ input = Star(w) => output = Underscore(w)

\* The block the table t is to become.
ExpectedTable(t) ==
    Fence \o Join([k \in 1..t.cols |-> Star(HeaderCells[k])], <<" ", "|", " ">>)
          \o <<NL>>
          \o Join([r \in 1..Len(t.body) |-> Join(t.body[r], <<" ", "|", " ">>) \o <<NL>>],
                  <<>>)
          \o Fence

\* C15: a table of a header row, a separator row and body rows becomes a
\* fenced block: the header cells each between single asterisks and joined
\* by " | ", then the body rows joined by " | ", the separator row gone, and
\* the later passes leave that block as the table pass made it.
C15_TableBlock ==
    applied = "convertMarkdownToSlack"
        => \A t \in Tables : input = RenderTable(t) => output = ExpectedTable(t)

\* C16: for paragraphs set apart by blank lines, createSlackBlocks returns one
\* block for each paragraph, in order, holding that paragraph.
C16_OneBlockPerParagraph ==
    applied = "createSlackBlocks"
        => \A ps \in ParagraphLists :
              input = Join(ps, BlankLine)
                  => output = [k \in 1..Len(ps) |-> Block(ps[k])]

C16_Witness ==
    /\ applied = "createSlackBlocks"
    /\ input = Join(<<<<"a">>, <<"a", NL, "b">>, <<"b">>>>, BlankLine)
    /\ Len(output) = 3
    /\ output[2].text.text = <<"a", NL, "b">>

\* C17: createSlackBlocks of the empty string returns no block.
C17_EmptyTextNoBlock ==
    (applied = "createSlackBlocks" /\ input = <<>>) => Len(output) = 0

\* C18: on a text made of converted markers only, applying
\* convertMarkdownToSlack to its own result gives that result again.
C18_IdempotentOnConverted ==
    (applied = "convertMarkdownToSlack twice" /\ input \in ConvertedTexts)
        => output2 = output

C18_Witness ==
    /\ applied = "convertMarkdownToSlack twice"
    /\ input = Star(<<"a">>) \o <<NL>> \o Bulleted(<<"a">>) \o <<" ">> \o Underscore(<<"b">>)
    /\ output # input
    /\ output2 = output

Posts(s, kind, status) ==
    {k \in 1..Len(s.posts) : s.posts[k].kind = kind /\ s.posts[k].status = status}

\* C19: for one event at most one post succeeds; a reply that was posted is
\* never followed by an apology; and an apology is posted only after a step
\* of the handling, the reply post at the latest, has failed.
C19_AtMostOneSuccessfulPost ==
    \A i \in Slots :
        LET s == inv[i]
            apologies == {k \in 1..Len(s.posts) : s.posts[k].kind = "apology"}
        IN  /\ Cardinality({k \in 1..Len(s.posts) : s.posts[k].status = "ok"}) <= 1
            /\ Posts(s, "reply", "ok") # {} => (apologies = {} /\ s.failure = "none")
            /\ apologies # {}
                  => /\ s.failure # "none"
                     /\ apologies = {Len(s.posts)}
                     /\ \A k \in 1..(Len(s.posts) - 1) :
                           s.posts[k].kind = "reply" /\ s.posts[k].status = "failed"
                     /\ Len(s.posts) = 2 <=> s.failure = "say"

C19_Witness ==
    \E i \in Slots :
        /\ inv[i].kind = "message2"
        /\ Len(inv[i].posts) = 2
        /\ inv[i].posts[1] = [kind |-> "reply", thread_ts |-> ReplyAnchor(inv[i].ev),
                              status |-> "failed"]
        /\ inv[i].posts[2].kind = "apology" /\ inv[i].posts[2].status = "ok"

\* C20: a resolved bot identity never becomes empty again, and the
\* app.message handler issues its own lookup only when it finds the identity
\* empty, whatever the retry loop and the other invocations do meanwhile.
C20_IdentityMonotoneLazyLookup ==
    [][/\ botUserId # <<>> => botUserId' # <<>>
       /\ \A i \in Slots :
             (inv'[i].pc = "auth_wait" /\ inv[i].pc # "auth_wait")
                 => botUserId = <<>>]_vars

C20_Witness ==
    \E i, j \in Slots :
        /\ i # j
        /\ botUserId # <<>> /\ initPc = "retry_wait"
        /\ inv[i].pc = "auth_wait"
        /\ inv[j].kind = "message" /\ Predicted(inv[j])
        /\ ~Called(inv[j], <<"auth.test", 0>>)

\* C21: in the first script the shutting-down flag, once set, stays set; a
\* SIGTERM that finds it set calls app.stop() no further time, so that the app
\* is stopped at most once; and a lookup failure after the flag is set
\* schedules no retry.
C21_ShutdownOneWay ==
    [][revision = App1
          => /\ isShuttingDown => isShuttingDown'
             /\ isShuttingDown => stopCalls' = stopCalls
             /\ stopCalls' <= 1
             /\ (isShuttingDown /\ initPc = "calling") => initPc' # "retry_wait"]_vars

C21_Witness ==
    /\ revision = App1
    /\ isShuttingDown /\ stopCalls = 1 /\ sigtermPc = "exit0"
    /\ initPc = "stopped" /\ botUserId = <<>>

\* C22: when the thread-history lookup fails, the event, a message outside
\* direct messages without a mention, is decided not eligible and skipped: no
\* prediction call is made, nothing is posted, and the handler's catch block
\* is not entered.
C22_ThreadLookupFailureSkips ==
    \A i \in Slots :
        inv[i].failure = "conversations.replies"
            => /\ ~IsDM(inv[i].ev) /\ ~hasMention(inv[i].ev, inv[i].identity)
               /\ inv[i].pc = "skipped" /\ inv[i].decision = "no"
               /\ ~Predicted(inv[i])
               /\ inv[i].posts = <<>>

C22_Witness ==
    \E i \in Slots :
        /\ inv[i].kind = "message" /\ inv[i].ev.channel_type = "channel"
        /\ inv[i].ev.thread_ts # 0 /\ inv[i].ev.text = TextHi
        /\ inv[i].failure = "conversations.replies"
        /\ inv[i].pc = "skipped"

====
